---------------------------- MODULE Spec2Model ----------------------------
(***************************************************************************)
(* Base45 encoder/decoder (package base45).  Bytes and characters are the  *)
(* naturals 0..255 (a Go byte); a []byte or string is a sequence of them.  *)
(* One caller issues Encode, EncodeURLSafe, Decode and DecodeURLSafe calls *)
(* one after the other; every loop iteration of a call is one step.        *)
(***************************************************************************)
EXTENDS Integers, Sequences, FiniteSets, TLC

(***************************************************************************)
(* Program constants                                                       *)
(***************************************************************************)
Base == 45

MaxUint8 == 255

MaxUint16 == 65535

\* var Alphabet = []byte{'0'..'9', 'A'..'Z', ' ', '$', '%', '*', '+', '-', '.', '/', ':'}
\* Mutant: '$' and '%' change places.
AlphabetSwapped ==
    << 48, 49, 50, 51, 52, 53, 54, 55, 56, 57, 65, 66,
       67, 68, 69, 70, 71, 72, 73, 74, 75, 76, 77, 78,
       79, 80, 81, 82, 83, 84, 85, 86, 87, 88, 89, 90,
       32, 37, 36, 42, 43, 45, 46, 47, 58 >>

Alphabet ==
    << 48, 49, 50, 51, 52, 53, 54, 55, 56, 57, 65, 66,
       67, 68, 69, 70, 71, 72, 73, 74, 75, 76, 77, 78,
       79, 80, 81, 82, 83, 84, 85, 86, 87, 88, 89, 90,
       32, 36, 37, 42, 43, 45, 46, 47, 58 >>

\* var Alphabet is a package-level slice: the state every call reads.
VARIABLE alphabet

ErrNil == "nil"

ErrEmptyInput == "ErrEmptyInput"

ErrInvalidEncodingCharacters == "ErrInvalidEncodingCharacters"

ErrInvalidLength == "ErrInvalidLength"

ErrInvalidURLSafeEscaping == "ErrInvalidURLSafeEscaping"

ErrInvalidEncodedDataOverflow == "ErrInvalidEncodedDataOverflow"

\* A Go run-time panic (index or slice bounds out of range).
ErrPanic == "panic"

(***************************************************************************)
(* Go values                                                               *)
(***************************************************************************)
Byte == 0..255

\* A []byte result: nil, or a slice with contents val.
NilBytes == [isNil |-> TRUE, val |-> <<>>]

Bytes(s) == [isNil |-> FALSE, val |-> s]

Min(a, b) == IF a <= b THEN a ELSE b

\* s[from:to] of a Go slice (0-based, to exclusive).
Slice(s, from, to) == [i \in 1..(to - from) |-> s[from + i]]

\* Alphabet[i] of the Go source (0-based); -1 stands for the index-out-of-range panic.
AlphabetAt(i) == IF i \in 0..(Len(alphabet) - 1) THEN alphabet[i + 1] ELSE -1

\* Mutant: the position counted from 1.
IndexByteOneBased(c) ==
    IF \E i \in 1..Len(alphabet) : alphabet[i] = c
    THEN CHOOSE i \in 1..Len(alphabet) :
             alphabet[i] = c /\ \A j \in 1..(i - 1) : alphabet[j] # c
    ELSE -1

\* bytes.IndexByte(Alphabet, c): the first 0-based position of c, or -1.
IndexByte(c) ==
    IF \E i \in 1..Len(alphabet) : alphabet[i] = c
    THEN (CHOOSE i \in 1..Len(alphabet) :
              alphabet[i] = c /\ \A j \in 1..(i - 1) : alphabet[j] # c) - 1
    ELSE -1

\* bytes.Contains(Alphabet, []byte{v})
AlphabetContains(v) == \E i \in 1..Len(alphabet) : alphabet[i] = v

\* (*bytes.Reader).Read(buf): copies min(len(buf), unread) bytes to the front of
\* buf, leaves the rest of buf as it was, and advances the reader.
ReaderRead(in, pos, buf) ==
    LET n == Min(Len(buf), Len(in) - pos)
    IN  [ n   |-> n,
          buf |-> [i \in 1..Len(buf) |-> IF i <= n THEN in[pos + i] ELSE buf[i]],
          pos |-> pos + n ]

(***************************************************************************)
(* Encoder                                                                 *)
(***************************************************************************)
\* The Alphabet indices encodeSingleByte looks up: a%45, a/45%45.
encodeSingleByteIdx(in) ==
    LET a == in
    IN  << a % Base, (a \div Base) % Base >>

\* Mutant: a trailing byte padded to a full three-character chunk.
encodeSingleByteThree(in) ==
    << AlphabetAt(in % Base), AlphabetAt((in \div Base) % Base), AlphabetAt(0) >>

encodeSingleByte(in) ==
    LET x == encodeSingleByteIdx(in)
    IN  << AlphabetAt(x[1]), AlphabetAt(x[2]) >>

\* binary.BigEndian.Uint16(in)
BigEndianUint16(in) == (in[1] * 256 + in[2]) % 65536

\* Mutant: the second and third digit taken without the reduction modulo 45.
encodeTwoBytesIdxNoMod(in) ==
    LET n == (in[1] * 256 + in[2]) % 65536
    IN  << n % Base, n \div Base, n \div (Base * Base) >>

\* The Alphabet indices encodeTwoBytes looks up: n%45, n/45%45, n/(45*45)%45.
encodeTwoBytesIdx(in) ==
    LET n == BigEndianUint16(in)
    IN  << n % Base, (n \div Base) % Base, (n \div (Base * Base)) % Base >>

\* Mutant: the three digits emitted most significant first.
encodeTwoBytesMSDFirst(in) ==
    LET n == (in[1] * 256 + in[2]) % 65536
    IN  << AlphabetAt((n \div (Base * Base)) % Base),
           AlphabetAt((n \div Base) % Base),
           AlphabetAt(n % Base) >>

encodeTwoBytes(in) ==
    LET x == encodeTwoBytesIdx(in)
    IN  << AlphabetAt(x[1]), AlphabetAt(x[2]), AlphabetAt(x[3]) >>

\* The state of Encode on entry to its loop: out, buf, reader.
EncodeInit(in) ==
    [ in |-> in, pos |-> 0, buf |-> <<0, 0>>, out |-> <<>>, idx |-> <<>>, brk |-> FALSE ]

\* Mutant: a read of 0 bytes does not leave the loop.
EncodeEmitNoBreak(st, r) ==
    IF r.n = 2
    THEN [st EXCEPT !.pos = r.pos, !.buf = r.buf,
                    !.out = st.out \o encodeTwoBytes(r.buf),
                    !.idx = encodeTwoBytesIdx(r.buf)]
    ELSE IF r.n = 1
    THEN [st EXCEPT !.pos = r.pos, !.buf = r.buf,
                    !.out = st.out \o encodeSingleByte(r.buf[1]),
                    !.idx = encodeSingleByteIdx(r.buf[1])]
    ELSE [st EXCEPT !.pos = r.pos, !.buf = r.buf]

\* The body of Encode's for loop after n, err := reader.Read(buf) returned r.
EncodeEmit(st, r) ==
        IF r.n = 2
        THEN [st EXCEPT !.pos = r.pos, !.buf = r.buf,
                        !.out = st.out \o encodeTwoBytes(r.buf),
                        !.idx = encodeTwoBytesIdx(r.buf)]
        ELSE IF r.n = 1
        THEN [st EXCEPT !.pos = r.pos, !.buf = r.buf,
                        !.out = st.out \o encodeSingleByte(r.buf[1]),
                        !.idx = encodeSingleByteIdx(r.buf[1])]
        ELSE [st EXCEPT !.pos = r.pos, !.buf = r.buf, !.idx = <<>>, !.brk = TRUE]

\* One iteration of Encode's for loop.
EncodeIter(st) == EncodeEmit(st, ReaderRead(st.in, st.pos, st.buf))

(***************************************************************************)
(* net/url, as EncodeURLSafe and DecodeURLSafe use it                      *)
(***************************************************************************)
IsAlnum(c) == c \in 48..57 \/ c \in 65..90 \/ c \in 97..122

\* shouldEscape(c, encodePath): alphanumerics and - _ . ~ are kept; of the reserved
\* characters $ & + , / : ; = ? @ only ? is escaped; everything else is escaped.
shouldEscape(c) ==
    IF IsAlnum(c) THEN FALSE
    ELSE IF c \in {45, 95, 46, 126} THEN FALSE
    ELSE IF c \in {36, 38, 43, 44, 47, 58, 59, 61, 63, 64} THEN c = 63
    ELSE TRUE

\* "0123456789ABCDEF"[d]
UpperHex(d) == IF d < 10 THEN 48 + d ELSE 65 + (d - 10)

\* escape(s, encodePath): %XX for every byte that shouldEscape.
RECURSIVE escape(_)
escape(s) ==
    IF s = <<>> THEN <<>>
    ELSE LET c == Head(s)
         IN  (IF shouldEscape(c)
              THEN << 37, UpperHex(c \div 16), UpperHex(c % 16) >>
              ELSE << c >>) \o escape(Tail(s))

\* (*URL).EscapedPath() with RawPath unset: "*" is kept, anything else escaped.
EscapedPath(path) == IF path = << 42 >> THEN path ELSE escape(path)

\* Whether the first segment of path (up to the first '/') holds a ':'.
ColonInFirstSegment(path) ==
    \E i \in 1..Len(path) :
        path[i] = 58 /\ \A j \in 1..(i - 1) : path[j] # 47

\* (&url.URL{Path: path}).String(): no scheme, host, query or fragment; the
\* escaped path, preceded by "./" when its first segment holds a colon.
URLString(path) ==
    LET p == EscapedPath(path)
    IN  (IF ColonInFirstSegment(p) THEN << 46, 47 >> ELSE <<>>) \o p

ishex(c) == c \in 48..57 \/ c \in 97..102 \/ c \in 65..70

unhex(c) ==
    IF c \in 48..57 THEN c - 48
    ELSE IF c \in 97..102 THEN c - 97 + 10
    ELSE IF c \in 65..70 THEN c - 65 + 10
    ELSE 0

\* First pass of unescape(s, encodeQueryComponent) from 1-based index i: TRUE
\* when every '%' is followed by two hex digits.
RECURSIVE EscapesValid(_, _)
EscapesValid(s, i) ==
    IF i > Len(s) THEN TRUE
    ELSE IF s[i] = 37
    THEN IF i + 2 > Len(s) \/ ~ishex(s[i + 1]) \/ ~ishex(s[i + 2])
         THEN FALSE
         ELSE EscapesValid(s, i + 3)
    ELSE EscapesValid(s, i + 1)

\* Second pass of unescape(s, encodeQueryComponent): %XX becomes the byte, '+'
\* becomes ' ', anything else is copied.
RECURSIVE UnescapeFrom(_, _)
UnescapeFrom(s, i) ==
    IF i > Len(s) THEN <<>>
    ELSE IF s[i] = 37
    THEN << unhex(s[i + 1]) * 16 + unhex(s[i + 2]) >> \o UnescapeFrom(s, i + 3)
    ELSE IF s[i] = 43
    THEN << 32 >> \o UnescapeFrom(s, i + 1)
    ELSE << s[i] >> \o UnescapeFrom(s, i + 1)

\* url.QueryUnescape(s): (string, error).
QueryUnescape(s) ==
    IF EscapesValid(s, 1)
    THEN [ok |-> TRUE, val |-> UnescapeFrom(s, 1)]
    ELSE [ok |-> FALSE, val |-> <<>>]

(***************************************************************************)
(* Decoder                                                                 *)
(***************************************************************************)
\* Mutant: the overflow test written val >= math.MaxUint8.
decodeTwoBytesOffByOne(src) ==
    LET c == IndexByte(src[1])
        d == IndexByte(src[2])
        val == c + (d * Base)
    IN  IF val >= MaxUint8
        THEN [err |-> ErrInvalidEncodedDataOverflow, bytes |-> <<>>]
        ELSE [err |-> ErrNil, bytes |-> << val % 256 >>]

\* decodeTwoBytes(dst, src): the error, and the byte copied into dst.
decodeTwoBytes(src) ==
    LET c == IndexByte(src[1])
        d == IndexByte(src[2])
        val == c + (d * Base)
    IN  IF val > MaxUint8
        THEN [err |-> ErrInvalidEncodedDataOverflow, bytes |-> <<>>]
        ELSE [err |-> ErrNil, bytes |-> << val % 256 >>]

\* Mutant: the two bytes written low byte first.
decodeThreeBytesLittleEndian(src) ==
    LET c == IndexByte(src[1])
        d == IndexByte(src[2])
        e == IndexByte(src[3])
        val == c + (d * Base) + (e * Base * Base)
        v == val % 65536
    IN  IF val > MaxUint16
        THEN [err |-> ErrInvalidEncodedDataOverflow, bytes |-> <<>>]
        ELSE [err |-> ErrNil, bytes |-> << v % 256, v \div 256 >>]

\* Mutant: the overflow test written val >= math.MaxUint16.
decodeThreeBytesOffByOne(src) ==
    LET c == IndexByte(src[1])
        d == IndexByte(src[2])
        e == IndexByte(src[3])
        val == c + (d * Base) + (e * Base * Base)
        v == val % 65536
    IN  IF val >= MaxUint16
        THEN [err |-> ErrInvalidEncodedDataOverflow, bytes |-> <<>>]
        ELSE [err |-> ErrNil, bytes |-> << v \div 256, v % 256 >>]

\* Mutant: no overflow check, the value is cut to 16 bits by uint16(val).
decodeThreeBytesNoOverflowCheck(src) ==
    LET c == IndexByte(src[1])
        d == IndexByte(src[2])
        e == IndexByte(src[3])
        val == c + (d * Base) + (e * Base * Base)
        v == val % 65536
    IN  [err |-> ErrNil, bytes |-> << v \div 256, v % 256 >>]

\* decodeThreeBytes(dst, src): the error, and the two bytes PutUint16 writes to dst.
decodeThreeBytes(src) ==
    LET c == IndexByte(src[1])
        d == IndexByte(src[2])
        e == IndexByte(src[3])
        val == c + (d * Base) + (e * Base * Base)
        v == val % 65536
    IN  IF val > MaxUint16
        THEN [err |-> ErrInvalidEncodedDataOverflow, bytes |-> <<>>]
        ELSE [err |-> ErrNil, bytes |-> << v \div 256, v % 256 >>]

\* Mutant: no empty-input check.
DecodeChecksNoEmpty(in) ==
    IF \E i \in 1..Len(in) : ~AlphabetContains(in[i])
    THEN ErrInvalidEncodingCharacters
    ELSE IF Len(in) % 3 # 0 /\ (Len(in) + 1) % 3 # 0 THEN ErrInvalidLength
    ELSE ErrNil

\* Mutant: the empty-input check written len(in) <= 1.
DecodeChecksEmptyOffByOne(in) ==
    IF Len(in) <= 1 THEN ErrEmptyInput
    ELSE IF \E i \in 1..Len(in) : ~AlphabetContains(in[i])
    THEN ErrInvalidEncodingCharacters
    ELSE IF Len(in) % 3 # 0 /\ (Len(in) + 1) % 3 # 0 THEN ErrInvalidLength
    ELSE ErrNil

\* Mutant: the length check made before the alphabet check.
DecodeChecksLengthFirst(in) ==
    IF Len(in) = 0 THEN ErrEmptyInput
    ELSE IF Len(in) % 3 # 0 /\ (Len(in) + 1) % 3 # 0 THEN ErrInvalidLength
    ELSE IF \E i \in 1..Len(in) : ~AlphabetContains(in[i])
    THEN ErrInvalidEncodingCharacters
    ELSE ErrNil

\* Mutant: the length check written (len(in)+2)%3, which rejects len mod 3 = 2.
DecodeChecksWrongLength(in) ==
    IF Len(in) = 0 THEN ErrEmptyInput
    ELSE IF \E i \in 1..Len(in) : ~AlphabetContains(in[i])
    THEN ErrInvalidEncodingCharacters
    ELSE IF Len(in) % 3 # 0 /\ (Len(in) + 2) % 3 # 0 THEN ErrInvalidLength
    ELSE ErrNil

\* The three checks Decode makes before its loop, in the order of the source.
DecodeChecks(in) ==
    IF Len(in) = 0 THEN ErrEmptyInput
    ELSE IF \E i \in 1..Len(in) : ~AlphabetContains(in[i])
    THEN ErrInvalidEncodingCharacters
    ELSE IF Len(in) % 3 # 0 /\ (Len(in) + 1) % 3 # 0 THEN ErrInvalidLength
    ELSE ErrNil

\* Mutant: out := make([]byte, len(in)/2).
DecodeInitShortOut(in) ==
    [ in |-> in, pos |-> 0, buf |-> <<0, 0, 0>>,
      out |-> [i \in 1..(Len(in) \div 2) |-> 0], written |-> 0,
      err |-> ErrNil, brk |-> FALSE ]

\* The state of Decode on entry to its loop: out := make([]byte, len(in)), buf, reader.
DecodeInit(in) ==
    [ in |-> in, pos |-> 0, buf |-> <<0, 0, 0>>,
      out |-> [i \in 1..Len(in) |-> 0], written |-> 0,
      err |-> ErrNil, brk |-> FALSE ]

\* Mutant: the final pair taken from buf[1:3], which holds the previous chunk's
\* third character.
WriteAtStale(st, r, k) ==
    IF st.written + k > Len(st.out)
    THEN [st EXCEPT !.pos = r.pos, !.buf = r.buf, !.err = ErrPanic, !.brk = TRUE]
    ELSE LET d == IF k = 2 THEN decodeThreeBytes(r.buf)
                           ELSE decodeTwoBytes(Slice(r.buf, 1, 3))
         IN  IF d.err # ErrNil
             THEN [st EXCEPT !.pos = r.pos, !.buf = r.buf, !.err = d.err, !.brk = TRUE]
             ELSE [st EXCEPT !.pos = r.pos, !.buf = r.buf,
                             !.out = [i \in 1..Len(st.out) |->
                                         IF i > st.written /\ i <= st.written + k
                                         THEN d.bytes[i - st.written]
                                         ELSE st.out[i]],
                             !.written = st.written + k]

\* dst written at out[written:written+k]; a slice bound beyond the buffer panics.
WriteAt(st, r, k) ==
    IF st.written + k > Len(st.out)
    THEN [st EXCEPT !.pos = r.pos, !.buf = r.buf, !.err = ErrPanic, !.brk = TRUE]
    ELSE LET d == IF k = 2 THEN decodeThreeBytes(r.buf)
                           ELSE decodeTwoBytes(Slice(r.buf, 0, 2))
         IN  IF d.err # ErrNil
             THEN [st EXCEPT !.pos = r.pos, !.buf = r.buf, !.err = d.err, !.brk = TRUE]
             ELSE [st EXCEPT !.pos = r.pos, !.buf = r.buf,
                             !.out = [i \in 1..Len(st.out) |->
                                         IF i > st.written /\ i <= st.written + k
                                         THEN d.bytes[i - st.written]
                                         ELSE st.out[i]],
                             !.written = st.written + k]

\* The body of Decode's for loop after n, err := reader.Read(buf) returned r.
DecodeEmit(st, r) ==
    IF r.n = 3 THEN WriteAt(st, r, 2)
    ELSE IF r.n = 2 THEN WriteAt(st, r, 1)
    ELSE [st EXCEPT !.pos = r.pos, !.buf = r.buf, !.brk = TRUE]

\* One iteration of Decode's for loop.
DecodeIter(st) == DecodeEmit(st, ReaderRead(st.in, st.pos, st.buf))

\* Mutant: on a chunk's error the bytes decoded so far are returned with it.
DecodeReturnPartial(st) == Bytes(Slice(st.out, 0, st.written))

\* What Decode returns once its loop has ended: (nil, err) or (out[:written], nil).
DecodeReturn(st) ==
    IF st.err # ErrNil THEN NilBytes ELSE Bytes(Slice(st.out, 0, st.written))

(***************************************************************************)
(* The exported functions, run from entry to return                        *)
(***************************************************************************)
RECURSIVE EncodeRun(_)
EncodeRun(st) == IF st.brk THEN st.out ELSE EncodeRun(EncodeIter(st))

\* Encode(in)
Encode(in) == EncodeRun(EncodeInit(in))

\* EncodeURLSafe(in)
EncodeURLSafe(in) == URLString(Encode(in))

RECURSIVE DecodeRun(_)
DecodeRun(st) ==
    IF st.brk THEN [res |-> DecodeReturn(st), err |-> st.err]
    ELSE DecodeRun(DecodeIter(st))

\* Decode(in): ([]byte, error)
Decode(in) ==
    LET e == DecodeChecks(in)
    IN  IF e # ErrNil THEN [res |-> NilBytes, err |-> e]
        ELSE DecodeRun(DecodeInit(in))

\* DecodeURLSafe(in): ([]byte, error)
DecodeURLSafe(in) ==
    LET r == QueryUnescape(in)
    IN  IF ~r.ok THEN [res |-> NilBytes, err |-> ErrInvalidURLSafeEscaping]
        ELSE LET d == Decode(r.val)
             IN  IF d.err # ErrNil THEN [res |-> NilBytes, err |-> d.err] ELSE d

(***************************************************************************)
(* Bounds and the inputs the caller draws from                             *)
(***************************************************************************)
\* Longest byte sequence over EncVals handed to Encode / EncodeURLSafe.
MaxLen == 3

\* Longest character sequence over DecVals handed to Decode.
MaxEncLen == 4

\* Longest character sequence over URLVals handed to DecodeURLSafe.
MaxURLLen == 4

SeqsUpTo(S, n) == UNION { [1..k -> S] : k \in 0..n }

\* 0; 40, 44 (first digits '+' and ':'); 65 ('A'); 255.
EncVals == {0, 40, 44, 65, 255}

\* '0', ':', 'G', 'W', 'a' (not in the Alphabet).
DecVals == {48, 58, 71, 87, 97}

\* '%', '+', '0', '2', 'B'.
URLVals == {37, 43, 48, 50, 66}

\* "AB", "Hello!!", "base-45", "ietf!"
EncVectors ==
    { << 65, 66 >>,
      << 72, 101, 108, 108, 111, 33, 33 >>,
      << 98, 97, 115, 101, 45, 52, 53 >>,
      << 105, 101, 116, 102, 33 >> }

\* "BB8", "%69 VD92EX0", "UJCLQE7W581", "QED8WEX0", "FGW", "GGW", "::", "ABCD", "aa",
\* "U5" (255), "V5" (256), "000::", "BB8GGW"
DecVectors ==
    { << 66, 66, 56 >>,
      << 37, 54, 57, 32, 86, 68, 57, 50, 69, 88, 48 >>,
      << 85, 74, 67, 76, 81, 69, 55, 87, 53, 56, 49 >>,
      << 81, 69, 68, 56, 87, 69, 88, 48 >>,
      << 70, 71, 87 >>,
      << 71, 71, 87 >>,
      << 58, 58 >>,
      << 65, 66, 67, 68 >>,
      << 97, 97 >>,
      << 85, 53 >>,
      << 86, 53 >>,
      << 48, 48, 48, 58, 58 >>,
      << 66, 66, 56, 71, 71, 87 >> }

\* "%2569%20VD92EX0", "%20%"
URLVectors ==
    { << 37, 50, 53, 54, 57, 37, 50, 48, 86, 68, 57, 50, 69, 88, 48 >>,
      << 37, 50, 48, 37 >> }

\* Number of goroutines calling the package concurrently.
NProc == 2

\* Longest sequence over EncVals / DecVals handed to a call that must terminate.
MaxLiveLen == 2

\* What the concurrent callers pass: "AB", ","; ","; "BB8", "GGW", "aa"; "%20%", "BB8".
ConcEncInputs == { << 65, 66 >>, << 44 >> }

ConcURLEncInputs == { << 44 >> }

ConcDecInputs == { << 66, 66, 56 >>, << 71, 71, 87 >>, << 97, 97 >> }

ConcURLInputs == { << 37, 50, 48, 37 >>, << 66, 66, 56 >> }

\* EncodeURLSafe: every single byte, the short sequences over EncVals, the vectors.
URLEncInputs == SeqsUpTo(EncVals, MaxLen) \cup [1..1 -> Byte] \cup EncVectors

\* Encode: those, and every pair of bytes.
EncInputs == URLEncInputs \cup [1..2 -> Byte]

DecInputs == SeqsUpTo(DecVals, MaxEncLen) \cup DecVectors

URLInputs == SeqsUpTo(URLVals, MaxURLLen) \cup URLVectors

(***************************************************************************)
(* State                                                                   *)
(***************************************************************************)
VARIABLES
    pc,       \* where the caller is: "idle", inside a call, or "done"
    call,     \* the exported function called
    arg,      \* its argument
    in,       \* Encode / Decode: in
    pos,      \* the bytes.Reader's read position in in
    buf,      \* the chunk buffer
    out,      \* the output buffer
    written,  \* Decode: written
    idx,      \* the Alphabet indices looked up by the last Encode iteration
    res,      \* the returned []byte or string
    err,      \* the returned error
    prev,     \* the call whose result is the current argument, if any
    procs,    \* concurrent callers: the locals of each goroutine's call
    heap      \* concurrent callers: the chunk buffers allocated by make

\* The state of the single caller.
callerVars == << pc, call, arg, in, pos, buf, out, written, idx, res, err, prev >>

vars == << alphabet, pc, call, arg, in, pos, buf, out, written, idx, res, err, prev,
           procs, heap >>

NoPrev == [call |-> "none", arg |-> <<>>]

\* The goroutines that call the package concurrently.
Procs == 1..NProc

\* A goroutine outside any call.
IdleProc ==
    [ pc |-> "idle", call |-> "none", arg |-> <<>>, in |-> <<>>, pos |-> 0, n |-> 0,
      out |-> <<>>, written |-> 0, res |-> NilBytes, err |-> ErrNil ]

\* Mutant: one package-level chunk buffer of each size, used by every call.
BufOfShared(p, k) == << 1, k >>

\* buf := make([]byte, k): the allocation of the call running in goroutine p,
\* distinct from the allocation of every other running call.
BufOf(p, k) == << p, k >>

\* The chunk buffers that can be live at once, each zeroed by make.
ZeroHeap == [c \in Procs \X {2, 3} |-> [i \in 1..c[2] |-> 0]]

Init ==
    /\ pc = "idle"
    /\ call = "none"
    /\ arg = <<>>
    /\ in = <<>>
    /\ pos = 0
    /\ buf = <<>>
    /\ out = <<>>
    /\ written = 0
    /\ idx = <<>>
    /\ res = NilBytes
    /\ err = ErrNil
    /\ prev = NoPrev
    /\ alphabet = Alphabet
    /\ procs = [p \in Procs |-> IdleProc]
    /\ heap = ZeroHeap

\* Encode(b) entered: out, buf and reader are set up.
EnterEncode(b) ==
    LET st == EncodeInit(b)
    IN  /\ pc' = "Encode"
        /\ in' = st.in
        /\ pos' = st.pos
        /\ buf' = st.buf
        /\ out' = st.out
        /\ idx' = st.idx
        /\ written' = 0
        /\ res' = NilBytes
        /\ err' = ErrNil

\* Decode(s) entered.
EnterDecode(s) ==
    /\ pc' = "DecodeChecks"
    /\ in' = s
    /\ pos' = 0
    /\ buf' = <<>>
    /\ out' = <<>>
    /\ idx' = <<>>
    /\ written' = 0
    /\ res' = NilBytes
    /\ err' = ErrNil

\* DecodeURLSafe(s) entered.
EnterDecodeURLSafe(s) ==
    /\ pc' = "QueryUnescape"
    /\ in' = <<>>
    /\ pos' = 0
    /\ buf' = <<>>
    /\ out' = <<>>
    /\ idx' = <<>>
    /\ written' = 0
    /\ res' = NilBytes
    /\ err' = ErrNil

CallEncode ==
    /\ pc = "idle"
    /\ \E b \in EncInputs :
          /\ call' = "Encode"
          /\ arg' = b
          /\ EnterEncode(b)
    /\ UNCHANGED prev
    /\ UNCHANGED << alphabet, procs, heap >>

CallEncodeURLSafe ==
    /\ pc = "idle"
    /\ \E b \in URLEncInputs :
          /\ call' = "EncodeURLSafe"
          /\ arg' = b
          /\ EnterEncode(b)
    /\ UNCHANGED prev
    /\ UNCHANGED << alphabet, procs, heap >>

CallDecode ==
    /\ pc = "idle"
    /\ \E s \in DecInputs :
          /\ call' = "Decode"
          /\ arg' = s
          /\ EnterDecode(s)
    /\ UNCHANGED prev
    /\ UNCHANGED << alphabet, procs, heap >>

CallDecodeURLSafe ==
    /\ pc = "idle"
    /\ \E s \in URLInputs :
          /\ call' = "DecodeURLSafe"
          /\ arg' = s
          /\ EnterDecodeURLSafe(s)
    /\ UNCHANGED prev
    /\ UNCHANGED << alphabet, procs, heap >>

\* One iteration of Encode's loop; on the break Encode returns out, which is the
\* result of Encode and the Path of EncodeURLSafe.
EncodeStep ==
    /\ pc = "Encode"
    /\ LET st == EncodeIter([in |-> in, pos |-> pos, buf |-> buf, out |-> out,
                             idx |-> idx, brk |-> FALSE])
       IN  /\ pos' = st.pos
           /\ buf' = st.buf
           /\ out' = st.out
           /\ idx' = st.idx
           /\ IF ~st.brk
              THEN /\ pc' = "Encode"
                   /\ UNCHANGED res
              ELSE IF call = "Encode"
              THEN /\ pc' = "done"
                   /\ res' = Bytes(st.out)
              ELSE /\ pc' = "URLString"
                   /\ UNCHANGED res
    /\ UNCHANGED << call, arg, in, written, err, prev >>
    /\ UNCHANGED << alphabet, procs, heap >>

\* EncodeURLSafe: parts := &url.URL{Path: string(Encode(in))}; return parts.String()
URLStringStep ==
    /\ pc = "URLString"
    /\ res' = Bytes(URLString(out))
    /\ pc' = "done"
    /\ UNCHANGED << call, arg, in, pos, buf, out, written, idx, err, prev >>
    /\ UNCHANGED << alphabet, procs, heap >>

\* Mutant: the error of url.QueryUnescape is dropped (enc, _ := ...).
QueryUnescapeStepIgnoreErr ==
    /\ pc = "QueryUnescape"
    /\ pc' = "DecodeChecks"
    /\ in' = QueryUnescape(arg).val
    /\ UNCHANGED << call, arg, pos, buf, out, written, idx, res, err, prev >>
    /\ UNCHANGED << alphabet, procs, heap >>

\* DecodeURLSafe: enc, err := url.QueryUnescape(in), then Decode([]byte(enc)).
QueryUnescapeStep ==
    /\ pc = "QueryUnescape"
    /\ LET r == QueryUnescape(arg)
       IN  IF ~r.ok
           THEN /\ pc' = "done"
                /\ res' = NilBytes
                /\ err' = ErrInvalidURLSafeEscaping
                /\ UNCHANGED in
           ELSE /\ pc' = "DecodeChecks"
                /\ in' = r.val
                /\ UNCHANGED << res, err >>
    /\ UNCHANGED << call, arg, pos, buf, out, written, idx, prev >>
    /\ UNCHANGED << alphabet, procs, heap >>

\* Decode: the empty, alphabet and length checks, then the buffers are set up.
DecodeChecksStep ==
    /\ pc = "DecodeChecks"
    /\ LET e == DecodeChecks(in)
       IN  IF e # ErrNil
           THEN /\ pc' = "done"
                /\ res' = NilBytes
                /\ err' = e
                /\ UNCHANGED << pos, buf, out, written >>
           ELSE LET st == DecodeInit(in)
                IN  /\ pc' = "Decode"
                    /\ pos' = st.pos
                    /\ buf' = st.buf
                    /\ out' = st.out
                    /\ written' = st.written
                    /\ UNCHANGED << res, err >>
    /\ UNCHANGED << call, arg, in, idx, prev >>
    /\ UNCHANGED << alphabet, procs, heap >>

\* Mutant: decoding in place, out := in[:0], so every write lands in the input.
DecodeStepInPlace ==
    /\ pc = "Decode"
    /\ LET st == DecodeIter([in |-> in, pos |-> pos, buf |-> buf, out |-> out,
                             written |-> written, err |-> ErrNil, brk |-> FALSE])
       IN  /\ pos' = st.pos
           /\ buf' = st.buf
           /\ out' = st.out
           /\ written' = st.written
           /\ in' = [i \in 1..Len(in) |-> IF i <= st.written THEN st.out[i] ELSE in[i]]
           /\ IF ~st.brk
              THEN /\ pc' = "Decode"
                   /\ UNCHANGED << res, err >>
              ELSE /\ pc' = "done"
                   /\ res' = DecodeReturn(st)
                   /\ err' = st.err
    /\ UNCHANGED << call, arg, idx, prev >>
    /\ UNCHANGED << alphabet, procs, heap >>

\* One iteration of Decode's loop; a chunk's error or the break ends the call.
DecodeStep ==
    /\ pc = "Decode"
    /\ LET st == DecodeIter([in |-> in, pos |-> pos, buf |-> buf, out |-> out,
                             written |-> written, err |-> ErrNil, brk |-> FALSE])
       IN  /\ pos' = st.pos
           /\ buf' = st.buf
           /\ out' = st.out
           /\ written' = st.written
           /\ IF ~st.brk
              THEN /\ pc' = "Decode"
                   /\ UNCHANGED << res, err >>
              ELSE /\ pc' = "done"
                   /\ res' = DecodeReturn(st)
                   /\ err' = st.err
    /\ UNCHANGED << call, arg, in, idx, prev >>
    /\ UNCHANGED << alphabet, procs, heap >>

\* The caller hands the bytes Encode returned to Decode.
ChainDecode ==
    /\ pc = "done"
    /\ call = "Encode"
    /\ call' = "Decode"
    /\ arg' = res.val
    /\ prev' = [call |-> call, arg |-> arg]
    /\ EnterDecode(res.val)
    /\ UNCHANGED << alphabet, procs, heap >>

\* The caller hands the string EncodeURLSafe returned to DecodeURLSafe.
ChainDecodeURLSafe ==
    /\ pc = "done"
    /\ call = "EncodeURLSafe"
    /\ call' = "DecodeURLSafe"
    /\ arg' = res.val
    /\ prev' = [call |-> call, arg |-> arg]
    /\ EnterDecodeURLSafe(res.val)
    /\ UNCHANGED << alphabet, procs, heap >>

\* The caller hands the bytes a successful Decode returned to Encode.
ChainEncode ==
    /\ pc = "done"
    /\ call = "Decode"
    /\ err = ErrNil
    /\ call' = "Encode"
    /\ arg' = res.val
    /\ prev' = [call |-> call, arg |-> arg]
    /\ EnterEncode(res.val)
    /\ UNCHANGED << alphabet, procs, heap >>

\* The caller drops the result and is ready for the next call.
Return ==
    /\ pc = "done"
    /\ pc' = "idle"
    /\ call' = "none"
    /\ arg' = <<>>
    /\ in' = <<>>
    /\ pos' = 0
    /\ buf' = <<>>
    /\ out' = <<>>
    /\ written' = 0
    /\ idx' = <<>>
    /\ res' = NilBytes
    /\ err' = ErrNil
    /\ prev' = NoPrev
    /\ UNCHANGED << alphabet, procs, heap >>

Next ==
    \/ CallEncode
    \/ CallEncodeURLSafe
    \/ CallDecode
    \/ CallDecodeURLSafe
    \/ EncodeStep
    \/ URLStringStep
    \/ QueryUnescapeStep
    \/ DecodeChecksStep
    \/ DecodeStep
    \/ ChainDecode
    \/ ChainDecodeURLSafe
    \/ ChainEncode
    \/ Return

Spec == Init /\ [][Next]_vars

(***************************************************************************)
(* The two lookups of the Alphabet, each on its own                        *)
(***************************************************************************)
\* bytes.IndexByte(Alphabet, c) as decodeTwoBytes and decodeThreeBytes call it.
LookupIndexByte ==
    /\ pc = "idle"
    /\ \E c \in Byte :
          /\ call' = "IndexByte"
          /\ arg' = << c >>
          /\ idx' = << IndexByte(c) >>
    /\ pc' = "done"
    /\ UNCHANGED << alphabet, in, pos, buf, out, written, res, err, prev, procs, heap >>

\* Alphabet[i] as encodeSingleByte and encodeTwoBytes evaluate it, i in 0..44.
LookupAlphabetAt ==
    /\ pc = "idle"
    /\ \E i \in 0..(Base - 1) :
          /\ call' = "AlphabetAt"
          /\ idx' = << i >>
          /\ res' = Bytes(<< AlphabetAt(i) >>)
    /\ pc' = "done"
    /\ UNCHANGED << alphabet, arg, in, pos, buf, out, written, err, prev, procs, heap >>

NextAlphabet ==
    \/ LookupIndexByte
    \/ LookupAlphabetAt
    \/ Return

SpecAlphabet == Init /\ [][NextAlphabet]_vars

(***************************************************************************)
(* Concurrent callers: goroutine p runs one call at a time, and the steps   *)
(* of different goroutines interleave.  A loop iteration is two steps: the  *)
(* read into the chunk buffer, and the encoding or decoding of the buffer.  *)
(***************************************************************************)
\* Encode(b) or EncodeURLSafe(b) entered by goroutine p: buf := make([]byte, 2).
GoEnterEncode(p, f, b) ==
    /\ procs' = [procs EXCEPT ![p] = [IdleProc EXCEPT !.pc = "EncodeRead", !.call = f,
                                                      !.arg = b, !.in = b]]
    /\ heap' = [heap EXCEPT ![BufOf(p, 2)] = EncodeInit(b).buf]

GoCallEncode(p) ==
    /\ procs[p].pc = "idle"
    /\ \E b \in ConcEncInputs : GoEnterEncode(p, "Encode", b)
    /\ UNCHANGED << alphabet, callerVars >>

GoCallEncodeURLSafe(p) ==
    /\ procs[p].pc = "idle"
    /\ \E b \in ConcURLEncInputs : GoEnterEncode(p, "EncodeURLSafe", b)
    /\ UNCHANGED << alphabet, callerVars >>

GoCallDecode(p) ==
    /\ procs[p].pc = "idle"
    /\ \E s \in ConcDecInputs :
          procs' = [procs EXCEPT ![p] = [IdleProc EXCEPT !.pc = "DecodeChecks",
                                                         !.call = "Decode",
                                                         !.arg = s, !.in = s]]
    /\ UNCHANGED << alphabet, heap, callerVars >>

GoCallDecodeURLSafe(p) ==
    /\ procs[p].pc = "idle"
    /\ \E s \in ConcURLInputs :
          procs' = [procs EXCEPT ![p] = [IdleProc EXCEPT !.pc = "QueryUnescape",
                                                         !.call = "DecodeURLSafe",
                                                         !.arg = s]]
    /\ UNCHANGED << alphabet, heap, callerVars >>

\* Encode: n, _ := reader.Read(buf)
GoEncodeRead(p) ==
    /\ procs[p].pc = "EncodeRead"
    /\ LET q == procs[p]
           r == ReaderRead(q.in, q.pos, heap[BufOf(p, 2)])
       IN  /\ heap' = [heap EXCEPT ![BufOf(p, 2)] = r.buf]
           /\ procs' = [procs EXCEPT ![p] = [q EXCEPT !.pos = r.pos, !.n = r.n,
                                                      !.pc = "EncodeEmit"]]
    /\ UNCHANGED << alphabet, callerVars >>

\* Encode: the rest of the iteration, and the return once the loop has ended.
GoEncodeEmit(p) ==
    /\ procs[p].pc = "EncodeEmit"
    /\ LET q == procs[p]
           b == heap[BufOf(p, 2)]
           st == EncodeEmit([in |-> q.in, pos |-> q.pos, buf |-> b, out |-> q.out,
                             idx |-> <<>>, brk |-> FALSE],
                            [n |-> q.n, buf |-> b, pos |-> q.pos])
       IN  procs' = [procs EXCEPT ![p] =
                        IF ~st.brk
                        THEN [q EXCEPT !.out = st.out, !.pc = "EncodeRead"]
                        ELSE [q EXCEPT !.pc = "done",
                                       !.res = IF q.call = "Encode"
                                               THEN Bytes(st.out)
                                               ELSE Bytes(URLString(st.out))]]
    /\ UNCHANGED << alphabet, heap, callerVars >>

\* DecodeURLSafe: url.QueryUnescape(in), then Decode([]byte(enc)).
GoQueryUnescape(p) ==
    /\ procs[p].pc = "QueryUnescape"
    /\ LET q == procs[p]
           r == QueryUnescape(q.arg)
       IN  procs' = [procs EXCEPT ![p] =
                        IF ~r.ok
                        THEN [q EXCEPT !.pc = "done", !.res = NilBytes,
                                       !.err = ErrInvalidURLSafeEscaping]
                        ELSE [q EXCEPT !.pc = "DecodeChecks", !.in = r.val]]
    /\ UNCHANGED << alphabet, heap, callerVars >>

\* Decode: the checks before the loop, then out, buf := make([]byte, 3), reader.
GoDecodeChecks(p) ==
    /\ procs[p].pc = "DecodeChecks"
    /\ LET q == procs[p]
           e == DecodeChecks(q.in)
           st == DecodeInit(q.in)
       IN  IF e # ErrNil
           THEN /\ procs' = [procs EXCEPT ![p] = [q EXCEPT !.pc = "done",
                                                           !.res = NilBytes, !.err = e]]
                /\ UNCHANGED heap
           ELSE /\ procs' = [procs EXCEPT ![p] = [q EXCEPT !.pc = "DecodeRead",
                                                           !.out = st.out]]
                /\ heap' = [heap EXCEPT ![BufOf(p, 3)] = st.buf]
    /\ UNCHANGED << alphabet, callerVars >>

\* Decode: read, _ := reader.Read(buf)
GoDecodeRead(p) ==
    /\ procs[p].pc = "DecodeRead"
    /\ LET q == procs[p]
           r == ReaderRead(q.in, q.pos, heap[BufOf(p, 3)])
       IN  /\ heap' = [heap EXCEPT ![BufOf(p, 3)] = r.buf]
           /\ procs' = [procs EXCEPT ![p] = [q EXCEPT !.pos = r.pos, !.n = r.n,
                                                      !.pc = "DecodeEmit"]]
    /\ UNCHANGED << alphabet, callerVars >>

\* Decode: the rest of the iteration, and the return once the loop has ended.
GoDecodeEmit(p) ==
    /\ procs[p].pc = "DecodeEmit"
    /\ LET q == procs[p]
           b == heap[BufOf(p, 3)]
           st == DecodeEmit([in |-> q.in, pos |-> q.pos, buf |-> b, out |-> q.out,
                             written |-> q.written, err |-> ErrNil, brk |-> FALSE],
                            [n |-> q.n, buf |-> b, pos |-> q.pos])
       IN  procs' = [procs EXCEPT ![p] =
                        IF ~st.brk
                        THEN [q EXCEPT !.out = st.out, !.written = st.written,
                                       !.pc = "DecodeRead"]
                        ELSE [q EXCEPT !.pc = "done", !.out = st.out,
                                       !.res = DecodeReturn(st), !.err = st.err]]
    /\ UNCHANGED << alphabet, heap, callerVars >>

\* The call of goroutine p has returned; its chunk buffers are garbage.
GoReturn(p) ==
    /\ procs[p].pc = "done"
    /\ procs' = [procs EXCEPT ![p] = IdleProc]
    /\ heap' = [c \in DOMAIN heap |->
                   IF c \in {BufOf(p, 2), BufOf(p, 3)} THEN ZeroHeap[c] ELSE heap[c]]
    /\ UNCHANGED << alphabet, callerVars >>

NextConc ==
    \E p \in Procs :
        \/ GoCallEncode(p)
        \/ GoCallEncodeURLSafe(p)
        \/ GoCallDecode(p)
        \/ GoCallDecodeURLSafe(p)
        \/ GoEncodeRead(p)
        \/ GoEncodeEmit(p)
        \/ GoQueryUnescape(p)
        \/ GoDecodeChecks(p)
        \/ GoDecodeRead(p)
        \/ GoDecodeEmit(p)
        \/ GoReturn(p)

SpecConc == Init /\ [][NextConc]_vars

(***************************************************************************)
(* Encode and Decode calls that the scheduler keeps running: a goroutine   *)
(* inside a call takes its next step as long as it has one.                *)
(***************************************************************************)
LiveEncInputs == SeqsUpTo(EncVals, MaxLiveLen) \cup EncVectors

LiveDecInputs == SeqsUpTo(DecVals, MaxLiveLen) \cup DecVectors

CallEncodeLive ==
    /\ pc = "idle"
    /\ \E b \in LiveEncInputs :
          /\ call' = "Encode"
          /\ arg' = b
          /\ EnterEncode(b)
    /\ UNCHANGED prev
    /\ UNCHANGED << alphabet, procs, heap >>

CallDecodeLive ==
    /\ pc = "idle"
    /\ \E s \in LiveDecInputs :
          /\ call' = "Decode"
          /\ arg' = s
          /\ EnterDecode(s)
    /\ UNCHANGED prev
    /\ UNCHANGED << alphabet, procs, heap >>

NextLive ==
    \/ CallEncodeLive
    \/ CallDecodeLive
    \/ EncodeStep
    \/ DecodeChecksStep
    \/ DecodeStep
    \/ Return

SpecLive ==
    /\ Init
    /\ [][NextLive]_vars
    /\ WF_vars(EncodeStep)
    /\ WF_vars(DecodeChecksStep)
    /\ WF_vars(DecodeStep)

(***************************************************************************)
(* Properties                                                              *)
(***************************************************************************)
AlphabetSet == { Alphabet[i] : i \in 1..Len(Alphabet) }

\* The numeric value (0..44) of an Alphabet character.
RefPos(c) == CHOOSE v \in 0..(Len(Alphabet) - 1) : Alphabet[v + 1] = c

\* Decode has returned (called directly or by DecodeURLSafe after unescaping).
DecodeReturned ==
    /\ pc = "done"
    /\ call \in {"Decode", "DecodeURLSafe"}
    /\ err # ErrInvalidURLSafeEscaping

\* Encode has returned its result r to the caller or to EncodeURLSafe.
EncodeReturned(r) ==
    \/ pc = "done" /\ call = "Encode" /\ r = res.val
    \/ pc = "URLString" /\ r = out

\* C1: for every byte sequence b of length >= 1, Decode(Encode(b)) returns
\* exactly b together with a nil error.
C1_RoundTrip ==
    (pc = "done" /\ call = "Decode" /\ prev.call = "Encode" /\ Len(prev.arg) >= 1)
        => (res = Bytes(prev.arg) /\ err = ErrNil)

\* An odd-length input of more than one byte has made the round trip.
C1_Witness ==
    /\ pc = "done" /\ call = "Decode" /\ prev.call = "Encode"
    /\ prev.arg = << 255, 255, 44 >>
    /\ res = Bytes(<< 255, 255, 44 >>)
    /\ err = ErrNil

\* C2 as stated: Decode(Encode(empty)) returns the empty byte sequence and no error.
C2_EmptyRoundTrip ==
    (pc = "done" /\ call = "Decode" /\ prev.call = "Encode" /\ prev.arg = <<>>)
        => (res = Bytes(<<>>) /\ err = ErrNil)

\* C2 as amended: Encode(empty) is the empty sequence, and Decode of it fails
\* with ErrEmptyInput and returns nil; the round trip holds from length 1 on.
C2_EmptyRoundTripFails ==
    /\ (pc = "done" /\ call = "Decode" /\ prev.call = "Encode" /\ prev.arg = <<>>)
          => (arg = <<>> /\ res = NilBytes /\ err = ErrEmptyInput)
    /\ (pc = "done" /\ call = "Decode" /\ prev.call = "Encode" /\ prev.arg # <<>>)
          => (res = Bytes(prev.arg) /\ err = ErrNil)

\* Decode has been handed the result of Encode(empty) and has returned.
C2_Witness ==
    /\ pc = "done" /\ call = "Decode"
    /\ prev = [call |-> "Encode", arg |-> <<>>]
    /\ err = ErrEmptyInput

\* C3: for every byte sequence b of length >= 1, DecodeURLSafe(EncodeURLSafe(b))
\* returns exactly b with a nil error, whatever Alphabet characters Encode emits.
C3_URLRoundTrip ==
    (/\ pc = "done" /\ call = "DecodeURLSafe"
     /\ prev.call = "EncodeURLSafe" /\ Len(prev.arg) >= 1)
        => (res = Bytes(prev.arg) /\ err = ErrNil)

\* The reference encoding: pairs (a, b) as three digits of a*256 + b, least
\* significant first, and a trailing byte as two digits.
RECURSIVE RefEncode(_)
RefEncode(b) ==
    IF Len(b) = 0 THEN <<>>
    ELSE IF Len(b) = 1
    THEN << Alphabet[(b[1] % 45) + 1], Alphabet[((b[1] \div 45) % 45) + 1] >>
    ELSE LET n == b[1] * 256 + b[2]
         IN  << Alphabet[(n % 45) + 1],
                Alphabet[((n \div 45) % 45) + 1],
                Alphabet[((n \div 2025) % 45) + 1] >>
             \o RefEncode(SubSeq(b, 3, Len(b)))

\* C4: Encode(b) equals the reference encoding, and the digits looked up for a
\* chunk recompose to the chunk's value: c + 45*d + 2025*e = a*256 + b for a
\* pair, c + 45*d = a for a trailing byte.
C4_EncodeIsReference ==
    /\ \A r \in {res.val, out} : EncodeReturned(r) => r = RefEncode(in)
    /\ (pc = "Encode" /\ Len(idx) = 3)
          => idx[1] + 45 * idx[2] + 2025 * idx[3] = buf[1] * 256 + buf[2]
    /\ (pc = "Encode" /\ Len(idx) = 2)
          => idx[1] + 45 * idx[2] = buf[1]

\* Encode has returned for an input of two pairs and a trailing byte.
C4_Witness ==
    /\ pc = "done" /\ call = "Encode"
    /\ arg = << 98, 97, 115, 101, 45, 52, 53 >>
    /\ res = Bytes(<< 85, 74, 67, 76, 81, 69, 55, 87, 53, 56, 49 >>)

\* The reference decoding of s: byte i of the output, chunks at offsets 0, 3, 6, ...
RefDecode(s) ==
    LET k == Len(s) \div 3
        n3(j) == RefPos(s[3 * j + 1]) + 45 * RefPos(s[3 * j + 2])
                     + 2025 * RefPos(s[3 * j + 3])
        n2 == RefPos(s[3 * k + 1]) + 45 * RefPos(s[3 * k + 2])
        m == 2 * k + (IF Len(s) % 3 = 2 THEN 1 ELSE 0)
    IN  [i \in 1..m |->
            IF i > 2 * k THEN n2
            ELSE IF i % 2 = 1 THEN n3((i - 1) \div 2) \div 256
            ELSE n3((i - 1) \div 2) % 256]

\* C5: whenever Decode succeeds, its output is, in input order, two bytes
\* (high, low) per full 3-character chunk followed by one byte for a final
\* 2-character chunk, the chunks left-aligned at offsets 0, 3, 6, ...
C5_DecodeIsReference ==
    (DecodeReturned /\ err = ErrNil) => res = Bytes(RefDecode(in))

\* Decode has succeeded on two full chunks and a final 2-character chunk.
C5_Witness ==
    /\ pc = "done" /\ call = "Decode" /\ err = ErrNil
    /\ arg = << 81, 69, 68, 56, 87, 69, 88, 48 >>
    /\ res = Bytes(<< 105, 101, 116, 102, 33 >>)

\* C6: the length of Encode(b) is exactly ceil(len(b) * 3 / 2), and never
\* congruent to 1 modulo 3.
C6_EncodeLength ==
    \A r \in {res.val, out} :
        EncodeReturned(r) =>
            /\ Len(r) = (3 * Len(in) + 1) \div 2
            /\ Len(r) % 3 # 1

\* Encode has returned for an odd-length input of more than one byte.
C6_Witness ==
    /\ pc = "done" /\ call = "Encode"
    /\ Len(arg) = 3
    /\ Len(res.val) = 5

\* C7: every character of Encode(b) is one of the 45 Alphabet characters, and
\* every index used to look up the Alphabet lies in 0..44.
C7_EncodeInAlphabet ==
    /\ \A r \in {res.val, out} :
           EncodeReturned(r) => \A i \in 1..Len(r) : r[i] \in AlphabetSet
    /\ pc \in {"Encode", "URLString", "done"}
          => \A i \in 1..Len(idx) : idx[i] \in 0..44
    /\ Cardinality(AlphabetSet) = 45

\* A pair of bytes has been encoded through the last Alphabet entry (index 44, ':').
C7_Witness ==
    /\ pc = "Encode"
    /\ Len(idx) = 3
    /\ idx[3] = 32 /\ idx[1] = 44
    /\ out[Len(out) - 2] = 58

\* C8: Encode(empty) and EncodeURLSafe(empty) return empty output without error;
\* Decode(empty) fails with ErrEmptyInput and returns no bytes; Decode fails with
\* ErrEmptyInput only when its input has length 0.
C8_EmptyInput ==
    /\ (pc = "done" /\ call \in {"Encode", "EncodeURLSafe"} /\ arg = <<>>)
          => (res = Bytes(<<>>) /\ err = ErrNil)
    /\ (DecodeReturned /\ Len(in) = 0) => (res = NilBytes /\ err = ErrEmptyInput)
    /\ (DecodeReturned /\ err = ErrEmptyInput) => Len(in) = 0

\* The caller has called Decode on an empty input of its own and got ErrEmptyInput.
C8_Witness ==
    /\ pc = "done" /\ call = "Decode" /\ prev = NoPrev
    /\ arg = <<>>
    /\ err = ErrEmptyInput

\* C9: a non-empty input with a character outside the Alphabet, at any position,
\* makes Decode fail with ErrInvalidEncodingCharacters, whatever its length
\* modulo 3 and whatever the value of its chunks.
C9_AlphabetCheckFirst ==
    (/\ DecodeReturned
     /\ Len(in) >= 1
     /\ \E i \in 1..Len(in) : in[i] \notin AlphabetSet)
        => (err = ErrInvalidEncodingCharacters /\ res = NilBytes)

\* "GGWa": invalid length, an overflowing leading triple, and the character
\* outside the Alphabet in the last position.
C9_Witness ==
    /\ pc = "done" /\ call = "Decode"
    /\ in = << 71, 71, 87, 97 >>
    /\ err = ErrInvalidEncodingCharacters

\* C10: for a non-empty input of Alphabet characters, Decode fails with
\* ErrInvalidLength exactly when len(input) mod 3 = 1, and before any chunk is
\* decoded: the loop is never entered with such an input.
C10_LengthCheck ==
    /\ (/\ DecodeReturned
        /\ Len(in) >= 1
        /\ \A i \in 1..Len(in) : in[i] \in AlphabetSet)
           => /\ (err = ErrInvalidLength) <=> (Len(in) % 3 = 1)
              /\ (err = ErrInvalidLength) => (pos = 0 /\ written = 0 /\ out = <<>>)
    /\ pc = "Decode" => Len(in) % 3 # 1

\* "GGW0": an invalid length whose leading triple would overflow.
C10_Witness ==
    /\ pc = "done" /\ call = "Decode"
    /\ in = << 71, 71, 87, 48 >>
    /\ err = ErrInvalidLength

\* The value of the full chunk at offset 3*j of s, and of a final 2-character chunk.
RefTriple(s, j) ==
    RefPos(s[3 * j + 1]) + 45 * RefPos(s[3 * j + 2]) + 2025 * RefPos(s[3 * j + 3])

RefPair(s) ==
    RefPos(s[3 * (Len(s) \div 3) + 1]) + 45 * RefPos(s[3 * (Len(s) \div 3) + 2])

\* C11: for a non-empty input of Alphabet characters with length mod 3 in {0, 2},
\* Decode fails with ErrInvalidEncodedDataOverflow exactly when some full
\* 3-character chunk has a value above 65535 or the final 2-character chunk has a
\* value above 255; "FGW" (65535) decodes to [255, 255], "GGW" (65536) is
\* rejected, a pair of value 255 is accepted and one of value 256 or more is rejected.
C11_OverflowCheck ==
    /\ (/\ DecodeReturned
        /\ Len(in) >= 1
        /\ \A i \in 1..Len(in) : in[i] \in AlphabetSet
        /\ Len(in) % 3 \in {0, 2})
           => ((err = ErrInvalidEncodedDataOverflow) <=>
                  (\/ \E j \in 0..((Len(in) \div 3) - 1) : RefTriple(in, j) > 65535
                   \/ Len(in) % 3 = 2 /\ RefPair(in) > 255))
    /\ (DecodeReturned /\ in = << 70, 71, 87 >>)
           => (res = Bytes(<< 255, 255 >>) /\ err = ErrNil)
    /\ (DecodeReturned /\ in = << 71, 71, 87 >>) => err = ErrInvalidEncodedDataOverflow
    /\ (DecodeReturned /\ in = << 85, 53 >>) => (res = Bytes(<< 255 >>) /\ err = ErrNil)
    /\ (DecodeReturned /\ in \in {<< 86, 53 >>, << 58, 58 >>})
           => err = ErrInvalidEncodedDataOverflow

\* "BB8GGW": the second full chunk has the value 65536 and is rejected.
C11_Witness ==
    /\ pc = "done" /\ call = "Decode"
    /\ in = << 66, 66, 56, 71, 71, 87 >>
    /\ err = ErrInvalidEncodedDataOverflow

\* C12: whenever Decode or DecodeURLSafe returns a non-nil error, the returned
\* byte slice is nil, also when chunks before the failing one were already
\* decoded into the output buffer.
C12_NoPartialOutput ==
    (pc = "done" /\ call \in {"Decode", "DecodeURLSafe"} /\ err # ErrNil)
        => res = NilBytes

\* "000::": the first chunk has been written to out when the final pair overflows.
C12_Witness ==
    /\ pc = "done" /\ call = "Decode"
    /\ in = << 48, 48, 48, 58, 58 >>
    /\ written = 2
    /\ err = ErrInvalidEncodedDataOverflow
    /\ res = NilBytes

\* Every '%' of s is followed by two hexadecimal digits.
RefEscapesOK(s) ==
    \A i \in 1..Len(s) :
        s[i] = 37 =>
            /\ i + 2 <= Len(s)
            /\ \A k \in {i + 1, i + 2} :
                   s[k] \in (48..57) \cup (65..70) \cup (97..102)

\* C13: DecodeURLSafe fails with ErrInvalidURLSafeEscaping whenever
\* percent-decoding of its input fails, whatever the rest of the input would
\* decode to; when percent-decoding succeeds it returns exactly the bytes or the
\* error that Decode returns for the percent-decoded text.
C13_URLSafeEscaping ==
    (pc = "done" /\ call = "DecodeURLSafe")
        => IF RefEscapesOK(arg)
           THEN /\ err # ErrInvalidURLSafeEscaping
                /\ [res |-> res, err |-> err] = Decode(QueryUnescape(arg).val)
           ELSE /\ err = ErrInvalidURLSafeEscaping
                /\ res = NilBytes

\* "%20%": a '%' with nothing after it.
C13_Witness ==
    /\ pc = "done" /\ call = "DecodeURLSafe"
    /\ arg = << 37, 50, 48, 37 >>
    /\ err = ErrInvalidURLSafeEscaping

\* C14 as stated: DecodeURLSafe("") fails with ErrEmptyInput before attempting
\* percent-decoding: from its entry the call goes straight to that failure.
C14_EmptyBeforeUnescape ==
    (call = "DecodeURLSafe" /\ arg = <<>>)
        => (pc = "QueryUnescape" \/ (pc = "done" /\ err = ErrEmptyInput))

\* C14 as amended: DecodeURLSafe("") fails with ErrEmptyInput and returns nil,
\* after url.QueryUnescape has run on the empty input and returned the empty
\* string: the error is the one of Decode's empty-input check.
C14_EmptyAfterUnescape ==
    (call = "DecodeURLSafe" /\ arg = <<>>)
        => /\ pc \in {"QueryUnescape", "DecodeChecks", "done"}
           /\ pc \in {"DecodeChecks", "done"} => (QueryUnescape(arg).ok /\ in = <<>>)
           /\ pc = "done" => (err = ErrEmptyInput /\ res = NilBytes)

\* DecodeURLSafe("") has returned.
C14_Witness ==
    /\ pc = "done" /\ call = "DecodeURLSafe" /\ prev = NoPrev
    /\ arg = <<>>
    /\ in = <<>>
    /\ err = ErrEmptyInput

\* C15: the published vectors match exactly: Encode("AB") = "BB8",
\* Encode("Hello!!") = "%69 VD92EX0", Encode("base-45") = "UJCLQE7W581",
\* Decode("BB8") = "AB", Decode("%69 VD92EX0") = "Hello!!",
\* Decode("QED8WEX0") = "ietf!", EncodeURLSafe("Hello!!") = "%2569%20VD92EX0"
\* and DecodeURLSafe("%2569%20VD92EX0") = "Hello!!".
C15_PublishedVectors ==
    LET AB      == << 65, 66 >>
        BB8     == << 66, 66, 56 >>
        Hello   == << 72, 101, 108, 108, 111, 33, 33 >>
        HelloE  == << 37, 54, 57, 32, 86, 68, 57, 50, 69, 88, 48 >>
        HelloU  == << 37, 50, 53, 54, 57, 37, 50, 48, 86, 68, 57, 50, 69, 88, 48 >>
        base45  == << 98, 97, 115, 101, 45, 52, 53 >>
        base45E == << 85, 74, 67, 76, 81, 69, 55, 87, 53, 56, 49 >>
        ietf    == << 105, 101, 116, 102, 33 >>
        ietfE   == << 81, 69, 68, 56, 87, 69, 88, 48 >>
        Enc(b, s)  == (call = "Encode" /\ arg = b) => res = Bytes(s)
        EncU(b, s) == (call = "EncodeURLSafe" /\ arg = b) => res = Bytes(s)
        Dec(s, b)  == (call = "Decode" /\ arg = s) => (res = Bytes(b) /\ err = ErrNil)
        DecU(s, b) == (call = "DecodeURLSafe" /\ arg = s) => (res = Bytes(b) /\ err = ErrNil)
    IN  pc = "done"
            => /\ Enc(AB, BB8)
               /\ Enc(Hello, HelloE)
               /\ Enc(base45, base45E)
               /\ Dec(BB8, AB)
               /\ Dec(HelloE, Hello)
               /\ Dec(ietfE, ietf)
               /\ EncU(Hello, HelloU)
               /\ DecU(HelloU, Hello)

\* DecodeURLSafe("%2569%20VD92EX0") has returned "Hello!!".
C15_Witness ==
    /\ pc = "done" /\ call = "DecodeURLSafe" /\ err = ErrNil
    /\ arg = << 37, 50, 53, 54, 57, 37, 50, 48, 86, 68, 57, 50, 69, 88, 48 >>
    /\ in = << 37, 54, 57, 32, 86, 68, 57, 50, 69, 88, 48 >>
    /\ res = Bytes(<< 72, 101, 108, 108, 111, 33, 33 >>)

\* The 45 characters of the encoding: digits, capital letters, " $%*+-./:".
RefChars == (48..57) \cup (65..90) \cup {32, 36, 37, 42, 43, 45, 46, 47, 58}

\* C16: the Alphabet holds exactly 45 pairwise distinct characters (digits 0-9,
\* letters A-Z, then space $ % * + - . / :), and the two lookups are mutually
\* inverse: for every i in 0..44 the position lookup of Alphabet[i] returns i,
\* and for every character not in the Alphabet the position lookup reports -1.
C16_AlphabetLookups ==
    /\ Len(alphabet) = 45
    /\ \A i, j \in 1..Len(alphabet) : i # j => alphabet[i] # alphabet[j]
    /\ \A i \in 0..9 : alphabet[i + 1] = 48 + i
    /\ \A i \in 0..25 : alphabet[i + 11] = 65 + i
    /\ SubSeq(alphabet, 37, 45) = << 32, 36, 37, 42, 43, 45, 46, 47, 58 >>
    /\ \A i \in 0..44 : IndexByte(AlphabetAt(i)) = i
    /\ \A c \in Byte \ RefChars : IndexByte(c) = -1
    /\ (pc = "done" /\ call = "IndexByte")
           => IF arg[1] \in RefChars
              THEN idx[1] \in 0..44 /\ alphabet[idx[1] + 1] = arg[1]
              ELSE idx[1] = -1
    /\ (pc = "done" /\ call = "AlphabetAt")
           => /\ res.val[1] \in RefChars
              /\ IndexByte(res.val[1]) = idx[1]

\* The position of ':' was looked up: 44.
C16_Witness ==
    /\ pc = "done" /\ call = "IndexByte"
    /\ arg = << 58 >>
    /\ idx = << 44 >>

\* What the call f(a) returns when it runs alone.
RunAlone(f, a) ==
    CASE f = "Encode"        -> [res |-> Bytes(Encode(a)), err |-> ErrNil]
      [] f = "EncodeURLSafe" -> [res |-> Bytes(EncodeURLSafe(a)), err |-> ErrNil]
      [] f = "Decode"        -> Decode(a)
      [] f = "DecodeURLSafe" -> DecodeURLSafe(a)

\* C17: under any interleaving of concurrent Encode, Decode, EncodeURLSafe and
\* DecodeURLSafe calls, each on its own input, every call returns the result it
\* returns when run alone; no call writes the Alphabet, and no two running
\* calls use the same chunk buffer.
C17_ConcurrentCalls ==
    /\ alphabet = Alphabet
    /\ \A p \in Procs :
          procs[p].pc = "done"
              => [res |-> procs[p].res, err |-> procs[p].err]
                     = RunAlone(procs[p].call, procs[p].arg)
    /\ \A p, q \in Procs : \A k \in {2, 3} : p # q => BufOf(p, k) # BufOf(q, k)

\* Goroutine 1 has returned from Encode("AB") while goroutine 2 was inside
\* Decode("BB8"), between a read and the decoding of what it read.
C17_Witness ==
    /\ procs[1].pc = "done" /\ procs[1].call = "Encode"
    /\ procs[1].arg = << 65, 66 >>
    /\ procs[1].res = Bytes(<< 66, 66, 56 >>)
    /\ procs[2].pc = "DecodeEmit" /\ procs[2].call = "Decode"
    /\ procs[2].arg = << 66, 66, 56 >>
    /\ procs[2].written = 0

\* C18: no operation has a side effect on caller-visible state: after any
\* sequence of Encode, EncodeURLSafe, Decode and DecodeURLSafe calls, successful
\* or failing, the Alphabet holds what it held at the start, and the slice a
\* caller passed (in) holds what the caller put into it (arg), during the call
\* and after it; what was passed changes only when a new call is made.
C18_NoSideEffects ==
    /\ [](alphabet = Alphabet)
    /\ []((pc # "idle" /\ call \in {"Encode", "EncodeURLSafe", "Decode"}) => in = arg)
    /\ [][arg' # arg => (pc \in {"idle", "done"} /\ pc' # pc)]_vars

\* Decode("BB8") has written both bytes of "AB" and returned.
C18_Witness ==
    /\ pc = "done" /\ call = "Decode" /\ err = ErrNil
    /\ arg = << 66, 66, 56 >>
    /\ in = << 66, 66, 56 >>
    /\ written = 2
    /\ res = Bytes(<< 65, 66 >>)
    /\ alphabet = Alphabet

\* C19: every Encode call and every Decode call terminates: an iteration that
\* finds unread input consumes min(2, unread) bytes in Encode and min(3, unread)
\* in Decode, the loop is left by the first read that returns 0 bytes, and a
\* call once entered reaches its return, where Encode has a result and Decode
\* has either a result or an error.
C19_Termination ==
    /\ [][pc = "Encode"
             => IF pos < Len(in)
                THEN pc' = "Encode" /\ pos' = pos + Min(2, Len(in) - pos)
                ELSE pc' = "done" /\ pos' = pos]_vars
    /\ [][pc = "Decode"
             => IF pos < Len(in)
                THEN pc' \in {"Decode", "done"} /\ pos' = pos + Min(3, Len(in) - pos)
                ELSE pc' = "done" /\ pos' = pos /\ err' = ErrNil]_vars
    /\ (pc \in {"Encode", "DecodeChecks", "Decode"}) ~> (pc = "done")
    /\ []((pc = "done" /\ call = "Encode") => (res # NilBytes /\ err = ErrNil))
    /\ []((pc = "done" /\ call = "Decode")
             => /\ err # ErrPanic
                /\ (err = ErrNil) = (res # NilBytes))

\* Decode("QED8WEX0") has read all 8 characters, then 0, and returned.
C19_Witness ==
    /\ pc = "done" /\ call = "Decode" /\ err = ErrNil
    /\ arg = << 81, 69, 68, 56, 87, 69, 88, 48 >>
    /\ pos = 8
    /\ written = 5

\* C20: in Decode, with out allocated at length len(in), every write stays
\* inside the buffer: before each 3-character chunk is decoded
\* written + 2 <= len(in), before the final 2-character chunk
\* written + 1 <= len(in), and no slice expression panics; on success the
\* returned length is 2*(len(in) div 3), plus 1 when len(in) mod 3 = 2, which is
\* strictly smaller than len(in).
C20_DecodeWritesInBounds ==
    /\ err # ErrPanic
    /\ pc = "Decode"
           => /\ Len(out) = Len(in)
              /\ Len(in) - pos >= 3 => written + 2 <= Len(in)
              /\ Len(in) - pos = 2 => written + 1 <= Len(in)
    /\ (DecodeReturned /\ err = ErrNil)
           => /\ Len(res.val) = 2 * (Len(in) \div 3) + (IF Len(in) % 3 = 2 THEN 1 ELSE 0)
              /\ Len(res.val) < Len(in)
              /\ Len(res.val) = written

\* Decode("QED8WEX0") after two 3-character chunks, before the final pair.
C20_Witness ==
    /\ pc = "Decode" /\ call = "Decode"
    /\ in = << 81, 69, 68, 56, 87, 69, 88, 48 >>
    /\ pos = 6
    /\ written = 4
    /\ Len(out) = 8

\* C21: the chunk buffer reused across iterations never leaks stale data into
\* the result.  In Encode, after a trailing odd byte was read, buf[1] still
\* holds the second byte of the previous pair, and the two characters emitted
\* are those of Encode of that single byte alone.  In Decode, after a final
\* 2-character chunk was read, buf[2] still holds the third character of the
\* previous chunk, and the error or the byte emitted is that of Decode of those
\* two characters alone.
C21_NoStaleData ==
    /\ (/\ call \in {"Encode", "EncodeURLSafe"}
        /\ pc \in {"Encode", "URLString", "done"}
        /\ Len(in) % 2 = 1
        /\ pos = Len(in))
           => /\ buf[1] = in[Len(in)]
              /\ buf[2] = (IF Len(in) >= 3 THEN in[Len(in) - 1] ELSE 0)
              /\ Len(out) >= 2
              /\ SubSeq(out, Len(out) - 1, Len(out)) = Encode(<< in[Len(in)] >>)
    /\ (/\ DecodeReturned
        /\ err \notin {ErrEmptyInput, ErrInvalidEncodingCharacters, ErrInvalidLength}
        /\ Len(in) % 3 = 2
        /\ pos = Len(in))
           => LET alone == Decode(<< in[Len(in) - 1], in[Len(in)] >>)
              IN  /\ buf[1] = in[Len(in) - 1]
                  /\ buf[2] = in[Len(in)]
                  /\ buf[3] = (IF Len(in) >= 5 THEN in[Len(in) - 2] ELSE 0)
                  /\ err = alone.err
                  /\ err = ErrNil
                         => /\ Len(res.val) >= 1
                            /\ res.val[Len(res.val)] = alone.res.val[1]

\* Decode("QED8WEX0") has returned "ietf!" with "X0" and the stale 'E' in buf.
C21_Witness ==
    /\ pc = "done" /\ call = "Decode" /\ err = ErrNil
    /\ in = << 81, 69, 68, 56, 87, 69, 88, 48 >>
    /\ buf = << 88, 48, 69 >>
    /\ res = Bytes(<< 105, 101, 116, 102, 33 >>)

\* C22: encoded forms are canonical: for every input s on which Decode(s)
\* succeeds, Encode(Decode(s)) = s; so Decode is injective on the inputs it
\* accepts: no other accepted string (here: none of the vectors, against each
\* string the caller passes directly) decodes to the bytes that s decodes to.
C22_Canonical ==
    /\ (pc = "done" /\ call = "Encode" /\ prev.call = "Decode")
           => res = Bytes(prev.arg)
    /\ (pc = "done" /\ call = "Decode" /\ err = ErrNil /\ prev = NoPrev)
           => \A t \in DecVectors :
                  Decode(t) = [res |-> res, err |-> ErrNil] => t = arg

\* "FGW" (65535, the largest triple) was decoded to 255 255 and encoded back.
C22_Witness ==
    /\ pc = "done" /\ call = "Encode" /\ prev.call = "Decode"
    /\ prev.arg = << 70, 71, 87 >>
    /\ arg = << 255, 255 >>
    /\ res = Bytes(<< 70, 71, 87 >>)

=============================================================================
